---------------------------- MODULE Spec2Model ----------------------------
(***************************************************************************)
(* Model of the Telegram bot of src/src/bot.ts: the text-effect envelope   *)
(* ("Original: ...\nModified: ..."), its parser, the inline keyboard of    *)
(* offered variants, the /effect command and the effect-<code> callbacks.  *)
(*                                                                         *)
(* Texts are JavaScript strings: sequences of UTF-16 code units, written   *)
(* as sequences of integers.  "Original: " is the ten code units of        *)
(* OriginalLabel, a line feed is 10.                                       *)
(*                                                                         *)
(* Spec models the handlers as the dispatcher runs them on a started bot   *)
(* (the registration order of src/unnamed/part_001 lines 158-230, whose    *)
(* handler bodies are the ones of src/src/bot.ts).  SpecEnvelope applies   *)
(* the two pure envelope functions to inputs drawn from bounded sets.      *)
(* SpecCatalog, SpecTranscode and SpecInline do the same for the catalog   *)
(* lookups, applyTextEffect and the inline-query handler.  SpecRelay and   *)
(* SpecRelayLater are the /webhook relay of bot.ts and of the later        *)
(* version of src/unnamed/part_000, SpecShared the handlers of the version *)
(* with a module-level keyboard, SpecAgree the callback handlers with      *)
(* their edits overlapping, SpecBoot the start-up of the process.          *)
(***************************************************************************)
EXTENDS Integers, Sequences, FiniteSets, TLC

VARIABLES
    msgs,          \* chat messages sent by the /effect reply, by message id
    lastCallback,  \* the last effect-<code> callback handled (history)
    envOriginal,   \* SpecEnvelope: the original text given to the functions
    envModified,   \* SpecEnvelope: the optional modified text
    envBlock,      \* SpecEnvelope: the block rendered or handed to the parser
    envParsed,     \* SpecEnvelope: the value the parser returned
    envOutcome,    \* SpecEnvelope: how the parser call completed
    envPc,         \* SpecEnvelope: position of the round trip
    lookup,        \* SpecCatalog: a catalog lookup, its argument and result
    transcode,     \* SpecTranscode: an applyTextEffect call and its result
    relay,         \* SpecRelay, SpecRelayLater: one /webhook command
    keyboard,      \* SpecShared: the module-level keyboard of part_001:20
    boot,          \* SpecBoot: the process from launch to the end of start-up
    inflight,      \* SpecAgree: callback handlers awaiting editMessageText
    inlineQuery    \* SpecInline: one inline query and the answer to it

vars == <<msgs, lastCallback, envOriginal, envModified, envBlock, envParsed,
          envOutcome, envPc, lookup, transcode, relay, keyboard, boot,
          inflight, inlineQuery>>

botVars == <<msgs, lastCallback>>
envVars == <<envOriginal, envModified, envBlock, envParsed, envOutcome, envPc>>
auxVars == <<lookup, transcode, relay, keyboard>>
sysVars == <<boot, inflight, inlineQuery>>

---------------------------------------------------------------------------
(* Bounds of the model *)

MaxPieces == 2
MaxMsgs == 1
MaxCodes == 2
MaxChats == 3
MaxPresses == 2
MaxCommands == 2
MaxInflight == 2

---------------------------------------------------------------------------
(* JavaScript values *)

\* an optional string (modified?: string): undefined, or a defined text
Undefined == [defined |-> FALSE, value |-> <<>>]
Some(s) == [defined |-> TRUE, value |-> s]

\* `modified ? a : b`: undefined and the empty string are both falsy
Truthy(opt) == opt.defined /\ opt.value # <<>>

\* "Original: " and "Modified: " as UTF-16 code units
OriginalLabel == <<79, 114, 105, 103, 105, 110, 97, 108, 58, 32>>
ModifiedLabel == <<77, 111, 100, 105, 102, 105, 101, 100, 58, 32>>
LineFeed == <<10>>

\* the characters `.` does not match in a JavaScript regular expression
LineTerminators == {10, 13, 8232, 8233}

---------------------------------------------------------------------------
(* Inputs: texts a user can type, built from a few pieces *)

Pieces == { <<97>>, <<66>>, LineFeed, ModifiedLabel, OriginalLabel }

RECURSIVE Concats(_)
Concats(n) ==
    IF n = 0 THEN { <<>> }
    ELSE LET prev == Concats(n - 1)
         IN  prev \cup { t \o p : t \in prev, p \in Pieces }

Texts == Concats(MaxPieces)
OptTexts == { Undefined } \cup { Some(t) : t \in Texts }

\* the argument texts of the /effect command (ctx.match): nothing, one line
\* ("a1"), two lines ("a", line feed, "B")
CommandTexts == { <<>>, <<97, 49>>, <<97, 10, 66>> }

MsgIds == 1 .. MaxMsgs

---------------------------------------------------------------------------
(* String helpers: String.prototype.match with a label and a dot-star group *)

\* the pattern's literal part matches the code units of s starting at i
MatchesAt(s, pat, i) ==
    /\ i >= 1
    /\ i + Len(pat) - 1 <= Len(s)
    /\ \A k \in 1 .. Len(pat) : s[i + k - 1] = pat[k]

\* index of the leftmost occurrence of pat in s, 0 when there is none
IndexOf(s, pat) ==
    LET hits == { i \in 1 .. Len(s) : MatchesAt(s, pat, i) }
    IN  IF hits = {} THEN 0
        ELSE CHOOSE i \in hits : \A j \in hits : i <= j

RestOfLine_ToEnd(s, from) == SubSeq(s, from, Len(s))

\* the dot-star group from position `from`: the longest run without a
\* line terminator
RestOfLine(s, from) ==
    LET stops == { j \in from .. Len(s) : s[j] \in LineTerminators }
        last  == IF stops = {} THEN Len(s)
                 ELSE (CHOOSE j \in stops : \A k \in stops : j <= k) - 1
    IN  SubSeq(s, from, last)

\* response.match of the label followed by the group: null, or the match
\* with its group 1
RegexMatch(s, label) ==
    LET at == IndexOf(s, label)
    IN  IF at = 0 THEN [matched |-> FALSE, group1 |-> <<>>]
        ELSE [matched |-> TRUE, group1 |-> RestOfLine(s, at + Len(label))]

---------------------------------------------------------------------------
(* The envelope: textEffectResponse and parseTextEffectResponse *)

\* `Original: ${original}${modified ? `\nModified: ${modified}` : ''}`
textEffectResponse(original, modified) ==
    OriginalLabel \o original \o
        (IF Truthy(modified)
            THEN LineFeed \o ModifiedLabel \o modified.value
            ELSE <<>>)

parseTextEffectResponse(response) ==
    LET originalTextMatch == RegexMatch(response, OriginalLabel)
        modifiedTextWatch == RegexMatch(response, ModifiedLabel)
    IN  [ originalText |-> IF originalTextMatch.matched
                              THEN originalTextMatch.group1 ELSE <<>>,
          modifiedText |-> IF modifiedTextWatch.matched
                              THEN Some(modifiedTextWatch.group1) ELSE Undefined ]

---------------------------------------------------------------------------
(* The catalog of variants *)

allEffects == << [code |-> "w", label |-> "Monospace"],
                 [code |-> "b", label |-> "Bold"],
                 [code |-> "i", label |-> "Italic"],
                 [code |-> "d", label |-> "Doublestruck"],
                 [code |-> "o", label |-> "Circled"],
                 [code |-> "q", label |-> "Squared"] >>

\* allEffects.map(e => e.code)
AllCodes == [ k \in 1 .. Len(allEffects) |-> allEffects[k].code ]
AllVariants == { allEffects[k].code : k \in 1 .. Len(allEffects) }

\* `effect-${effectCode}`
effectCallbackCodeAccessor(effectCode) ==
    CASE effectCode = "w" -> "effect-w"
      [] effectCode = "b" -> "effect-b"
      [] effectCode = "i" -> "effect-i"
      [] effectCode = "d" -> "effect-d"
      [] effectCode = "o" -> "effect-o"
      [] effectCode = "q" -> "effect-q"
      [] OTHER -> "effect-?"

\* allEffects.find(effect => effect.code === code): a one-element
\* sequence holding the first entry with the code, empty when none has it
FindEffect(code) ==
    LET hits == { k \in 1 .. Len(allEffects) : allEffects[k].code = code }
    IN  IF hits = {} THEN <<>>
        ELSE << allEffects[CHOOSE k \in hits : \A j \in hits : k <= j] >>

\* the labels of allEffects as UTF-16 code units
LabelUnits ==
    [ Monospace |-> <<77, 111, 110, 111, 115, 112, 97, 99, 101>>,
      Bold |-> <<66, 111, 108, 100>>,
      Italic |-> <<73, 116, 97, 108, 105, 99>>,
      Doublestruck |-> <<68, 111, 117, 98, 108, 101, 115, 116, 114, 117, 99, 107>>,
      Circled |-> <<67, 105, 114, 99, 108, 101, 100>>,
      Squared |-> <<83, 113, 117, 97, 114, 101, 100>> ]

\* String.prototype.toLowerCase on the Latin capital letters A-Z
toLowerCase(str) ==
    [ k \in 1 .. Len(str) |->
        IF str[k] >= 65 /\ str[k] <= 90 THEN str[k] + 32 ELSE str[k] ]

findEffectByLabel_CaseSensitive(label) ==
    LET hits == { k \in 1 .. Len(allEffects) :
                    LabelUnits[allEffects[k].label] = label }
    IN  IF hits = {} THEN <<>>
        ELSE << allEffects[CHOOSE k \in hits : \A j \in hits : k <= j].code >>

\* allEffects.find(effect => effect.label.toLowerCase() ===
\*   label.toLowerCase())?.code: a one-element sequence holding the code,
\* empty for undefined
findEffectByLabel(label) ==
    LET hits == { k \in 1 .. Len(allEffects) :
                    toLowerCase(LabelUnits[allEffects[k].label])
                        = toLowerCase(label) }
    IN  IF hits = {} THEN <<>>
        ELSE << allEffects[CHOOSE k \in hits : \A j \in hits : k <= j].code >>

---------------------------------------------------------------------------
(* The inline keyboard (grammY InlineKeyboard: rows of buttons) *)

\* new InlineKeyboard(): one empty row
InlineKeyboard == << <<>> >>

\* keyboard.text(label, data): a button appended to the last row
KeyboardText(kb, label, data) ==
    [kb EXCEPT ![Len(kb)] = Append(@, [text |-> label, callback_data |-> data])]

\* keyboard.row(): a new empty row
KeyboardRow(kb) == Append(kb, <<>>)

\* lodash chunk(array, size)
Chunk(array, size) ==
    LET n == (Len(array) + size - 1) \div size
    IN  [ c \in 1 .. n |->
            SubSeq(array, (c - 1) * size + 1,
                   IF c * size < Len(array) THEN c * size ELSE Len(array)) ]

\* chunk.forEach(effect => effect && keyboard.text(...).row())
RECURSIVE AddEffects(_, _)
AddEffects(kb, effects) ==
    IF effects = <<>> THEN kb
    ELSE LET found == Head(effects)
             next  == IF found = <<>> THEN kb
                      ELSE KeyboardRow(
                             KeyboardText(kb, found[1].label,
                                          effectCallbackCodeAccessor(found[1].code)))
         IN  AddEffects(next, Tail(effects))

\* chunks.forEach(chunk => ...)
RECURSIVE AddChunks(_, _)
AddChunks(kb, chunks) ==
    IF chunks = <<>> THEN kb
    ELSE AddChunks(AddEffects(kb, Head(chunks)), Tail(chunks))

createInlineKeyboard_FirstChunkOnly(effectCodes) ==
    LET effects == [ k \in 1 .. Len(effectCodes) |-> FindEffect(effectCodes[k]) ]
        chunks  == Chunk(effects, 3)
    IN  IF chunks = <<>> THEN InlineKeyboard
        ELSE AddEffects(InlineKeyboard, Head(chunks))

RECURSIVE AddEffects_NoRow(_, _)
AddEffects_NoRow(kb, effects) ==
    IF effects = <<>> THEN kb
    ELSE LET found == Head(effects)
             next  == IF found = <<>> THEN kb
                      ELSE KeyboardText(kb, found[1].label,
                                        effectCallbackCodeAccessor(found[1].code))
         IN  AddEffects_NoRow(next, Tail(effects))

createInlineKeyboard_NoRow(effectCodes) ==
    LET effects == [ k \in 1 .. Len(effectCodes) |-> FindEffect(effectCodes[k]) ]
    IN  AddEffects_NoRow(InlineKeyboard, effects)

createInlineKeyboard(effectCodes) ==
    LET effects == [ k \in 1 .. Len(effectCodes) |-> FindEffect(effectCodes[k]) ]
    IN  AddChunks(InlineKeyboard, Chunk(effects, 3))

RemainingCodes_NoFilter(code) == AllCodes

RemainingCodes_OnlySelected(code) == SelectSeq(AllCodes, LAMBDA c : c = code)

\* allEffects.map(e => e.code).filter(code => code !== effect.code)
RemainingCodes(code) == SelectSeq(AllCodes, LAMBDA c : c # code)

\* the buttons of a keyboard, row by row
RECURSIVE Buttons(_)
Buttons(kb) == IF kb = <<>> THEN <<>> ELSE Head(kb) \o Buttons(Tail(kb))

\* the callback data offered by a keyboard, in button order, and as a set
OfferedData(kb) ==
    LET bs == Buttons(kb) IN [ k \in 1 .. Len(bs) |-> bs[k].callback_data ]
OfferedSet(kb) ==
    LET bs == Buttons(kb) IN { bs[k].callback_data : k \in 1 .. Len(bs) }

---------------------------------------------------------------------------
(* applyTextEffect of ./textEffects: one styled scalar value per mapped     *)
(* scalar value, everything else passed through                            *)

IsHighSurrogate(u) == u >= 55296 /\ u <= 56319
IsLowSurrogate(u) == u >= 56320 /\ u <= 57343

\* the scalar values of a UTF-16 string
RECURSIVE Scalars(_)
Scalars(s) ==
    IF s = <<>> THEN <<>>
    ELSE IF Len(s) >= 2 /\ IsHighSurrogate(s[1]) /\ IsLowSurrogate(s[2])
         THEN << 65536 + (s[1] - 55296) * 1024 + (s[2] - 56320) >>
                  \o Scalars(SubSeq(s, 3, Len(s)))
         ELSE << s[1] >> \o Scalars(Tail(s))

EncodeScalar_LowFirst(cp) ==
    IF cp >= 65536
        THEN << 56320 + ((cp - 65536) % 1024), 55296 + ((cp - 65536) \div 1024) >>
        ELSE << cp >>

\* the UTF-16 code units of one scalar value
EncodeScalar(cp) ==
    IF cp >= 65536
        THEN << 55296 + ((cp - 65536) \div 1024), 56320 + ((cp - 65536) % 1024) >>
        ELSE << cp >>

\* first target code point of each run, 0 where the variant has no glyphs
GlyphMap ==
    [ w |-> [upper |-> 120432, lower |-> 120458, digit |-> 120822],
      b |-> [upper |-> 119808, lower |-> 119834, digit |-> 120782],
      i |-> [upper |-> 119860, lower |-> 119886, digit |-> 0],
      d |-> [upper |-> 120120, lower |-> 120146, digit |-> 120792],
      o |-> [upper |-> 9398,   lower |-> 9424,   digit |-> 0],
      q |-> [upper |-> 127280, lower |-> 127280, digit |-> 0] ]

MapScalar_AnyBasicLatin(cp, variant) ==
    IF variant \notin DOMAIN GlyphMap THEN cp
    ELSE LET g == GlyphMap[variant]
         IN  IF cp >= 97 /\ cp <= 122 THEN g.lower + (cp - 97)
             ELSE IF cp >= 48 /\ cp <= 57 /\ g.digit # 0 THEN g.digit + (cp - 48)
             ELSE IF cp < 128 THEN g.upper + (cp % 26)
             ELSE cp

MapScalar_DefaultBold(cp, variant) ==
    LET g == IF variant \in DOMAIN GlyphMap THEN GlyphMap[variant] ELSE GlyphMap.b
    IN  IF cp >= 65 /\ cp <= 90 THEN g.upper + (cp - 65)
        ELSE IF cp >= 97 /\ cp <= 122 THEN g.lower + (cp - 97)
        ELSE IF cp >= 48 /\ cp <= 57 /\ g.digit # 0 THEN g.digit + (cp - 48)
        ELSE cp

MapScalar(cp, variant) ==
    IF variant \notin DOMAIN GlyphMap THEN cp
    ELSE LET g == GlyphMap[variant]
         IN  IF cp >= 65 /\ cp <= 90 THEN g.upper + (cp - 65)
             ELSE IF cp >= 97 /\ cp <= 122 THEN g.lower + (cp - 97)
             ELSE IF cp >= 48 /\ cp <= 57 /\ g.digit # 0 THEN g.digit + (cp - 48)
             ELSE cp

RECURSIVE EncodeAll(_, _)
EncodeAll(scalars, variant) ==
    IF scalars = <<>> THEN <<>>
    ELSE EncodeScalar(MapScalar(Head(scalars), variant))
            \o EncodeAll(Tail(scalars), variant)

applyTextEffect(text, variant) == EncodeAll(Scalars(text), variant)

---------------------------------------------------------------------------
(* State of the bot's chat: the messages the /effect replies created *)

NoMessage ==
    [exists |-> FALSE, source |-> <<>>, text |-> <<>>, keyboard |-> <<>>,
     lastCode |-> "", textRead |-> TRUE]

NoCallback ==
    [handled |-> FALSE, msg |-> 0, code |-> "", prevCode |-> "",
     received |-> <<>>, applyCalls |-> <<>>, editCalls |-> <<>>]

InitBot ==
    /\ msgs = [m \in MsgIds |-> NoMessage]
    /\ lastCallback = NoCallback

EnvelopeIdle ==
    /\ envOriginal = <<>>
    /\ envModified = Undefined
    /\ envBlock = <<>>
    /\ envParsed = [originalText |-> <<>>, modifiedText |-> Undefined]
    /\ envOutcome = "none"
    /\ envPc = "idle"

\* the variables of the other specifications, at rest
LookupIdle ==
    lookup = [pc |-> "idle", op |-> "none", label |-> <<>>, codes |-> <<>>,
              found |-> <<>>, built |-> <<>>, outcome |-> "none"]
TranscodeIdle ==
    transcode = [pc |-> "idle", text |-> <<>>, variant |-> "", result |-> <<>>,
                 outcome |-> "none"]
RelayIdle ==
    relay = [pc |-> "idle", chat |-> 0, data |-> <<>>, post |-> "none",
             send |-> "none", notifyCalls |-> <<>>, sent |-> <<>>,
             console |-> <<>>, log |-> <<>>, result |-> "none"]
KeyboardIdle == keyboard = << <<>> >>
NoEnvironment ==
    [token |-> "missing", webhookUrl |-> "missing", nodeEnv |-> "missing",
     port |-> "missing"]
BootIdle ==
    boot = [pc |-> "off", version |-> "none", env |-> NoEnvironment,
            botConstructed |-> FALSE, registered |-> <<>>, listenCalls |-> 0,
            startCalls |-> 0, exitCode |-> <<>>, log |-> <<>>, console |-> <<>>,
            handled |-> 0]
InflightIdle == inflight = {}
InlineIdle ==
    inlineQuery = [pc |-> "idle", label |-> <<>>, text |-> <<>>,
                   query |-> <<>>, answers |-> <<>>, console |-> <<>>]
SysIdle == BootIdle /\ InflightIdle /\ InlineIdle

Init == InitBot /\ EnvelopeIdle /\ LookupIdle /\ TranscodeIdle /\ RelayIdle
            /\ KeyboardIdle /\ SysIdle

\* bot.command('effect', ctx => ctx.reply(textEffectResponse(ctx.match),
\*   { reply_markup: createInlineKeyboard(allEffects.map(e => e.code)) }))
\* The reply is a new message; `source` records ctx.match, `lastCode` the
\* variant selected last ("" for none yet), `textRead` that every callback
\* handled for the message so far carried its text.
EffectCommand(m, match) ==
    /\ ~msgs[m].exists
    /\ \A k \in MsgIds : k < m => msgs[k].exists
    /\ msgs' = [msgs EXCEPT ![m] =
                  [exists   |-> TRUE,
                   source   |-> match,
                   text     |-> textEffectResponse(match, Undefined),
                   keyboard |-> createInlineKeyboard(AllCodes),
                   lastCode |-> "",
                   textRead |-> TRUE]]
    /\ UNCHANGED <<sysVars, lastCallback, envVars, auxVars>>

\* The body of the callback handler from parseTextEffectResponse to
\* ctx.editMessageText: what a press of variant `code` does to message m.
\* `accessible` is whether the update carries the message's text
\* (ctx.msg?.text); without it the handler reads ''.  Each of the handler's
\* constants is bound once, to the one value it has.
EffectCallbackEdit(m, code, accessible) ==
    /\ msgs[m].exists
    /\ \E received \in { IF accessible THEN msgs[m].text ELSE <<>> } :
       \E originalText \in { parseTextEffectResponse(received).originalText } :
       \E modifiedText \in { applyTextEffect(originalText, code) } :
       \E newText \in { textEffectResponse(originalText, Some(modifiedText)) } :
           /\ msgs' = [msgs EXCEPT
                         ![m].text = newText,
                         ![m].keyboard = createInlineKeyboard(RemainingCodes(code)),
                         ![m].lastCode = code,
                         ![m].textRead = @ /\ accessible]
           /\ lastCallback' =
                 [handled    |-> TRUE,
                  msg        |-> m,
                  code       |-> code,
                  prevCode   |-> msgs[m].lastCode,
                  received   |-> received,
                  applyCalls |-> << originalText >>,
                  editCalls  |-> << newText >>]

\* bot.callbackQuery(`effect-${code}`, async ctx => { ... }): the handler of
\* one variant, run for a press on message m.  The press is not checked
\* against the keyboard on display.
EffectCallback(m, code, accessible) ==
    /\ EffectCallbackEdit(m, code, accessible)
    /\ UNCHANGED <<sysVars, envVars, auxVars>>

Next ==
    \/ \E m \in MsgIds, match \in CommandTexts : EffectCommand(m, match)
    \/ \E m \in MsgIds, code \in AllVariants, accessible \in BOOLEAN :
          EffectCallback(m, code, accessible)

Spec == Init /\ [][Next]_vars

---------------------------------------------------------------------------
(* SpecShared: the handlers of the version that keeps a module-level
   keyboard (part_001, first version) *)

\* `callback_data:${effect.code}`
SharedCallbackData(effectCode) ==
    CASE effectCode = "w" -> "callback_data:w"
      [] effectCode = "b" -> "callback_data:b"
      [] effectCode = "i" -> "callback_data:i"
      [] effectCode = "d" -> "callback_data:d"
      [] effectCode = "o" -> "callback_data:o"
      [] effectCode = "q" -> "callback_data:q"

\* The callback handler of that version: it first runs
\* keyboard.text(effect.label, `callback_data:${effect.code}`).row() on the
\* module-level keyboard, then does what the handler of bot.ts does.  The
\* model stops taking presses once the keyboard holds MaxPresses buttons.
EffectCallbackShared(m, code, accessible) ==
    /\ Len(Buttons(keyboard)) < MaxPresses
    /\ EffectCallbackEdit(m, code, accessible)
    /\ keyboard' = KeyboardRow(KeyboardText(keyboard, FindEffect(code)[1].label,
                                            SharedCallbackData(code)))
    /\ UNCHANGED <<sysVars, envVars, lookup, transcode, relay>>

NextShared ==
    \/ \E m \in MsgIds, match \in CommandTexts : EffectCommand(m, match)
    \/ \E m \in MsgIds, code \in AllVariants, accessible \in BOOLEAN :
          EffectCallbackShared(m, code, accessible)

SpecShared == Init /\ [][NextShared]_vars

---------------------------------------------------------------------------
(* SpecTranscode: applyTextEffect on inputs drawn from bounded sets *)

\* a capital, a small letter, a digit, a space, an exclamation mark, a
\* letter outside Basic Latin, a surrogate pair and a lone high surrogate
TranscodePieces ==
    { <<65>>, <<122>>, <<53>>, <<32>>, <<33>>, <<233>>, <<55357, 56832>>,
      <<55357>> }

RECURSIVE TranscodeTexts(_)
TranscodeTexts(n) ==
    IF n = 0 THEN { <<>> }
    ELSE LET prev == TranscodeTexts(n - 1)
         IN  prev \cup { t \o p : t \in prev, p \in TranscodePieces }

\* the variants of the catalog, a code that is none of them, and undefined
\* cast to Variant
VariantInputs == AllVariants \cup { "x", "undefined" }

\* applyTextEffect(text, variant); the call returns normally
Apply(text, variant) ==
    /\ transcode.pc = "idle"
    /\ transcode' = [pc |-> "applied", text |-> text, variant |-> variant,
                     result |-> applyTextEffect(text, variant),
                     outcome |-> "returned"]
    /\ UNCHANGED <<sysVars, botVars, envVars, lookup, relay, keyboard>>

NextTranscode ==
    \E text \in TranscodeTexts(MaxPieces), variant \in VariantInputs :
        Apply(text, variant)

SpecTranscode == Init /\ [][NextTranscode]_vars

---------------------------------------------------------------------------
(* SpecEnvelope: the envelope functions on inputs drawn from bounded sets *)

\* blocks of two lines, each with one of the labels or with none, in any
\* order
LabelledLines ==
    { lab \o t : lab \in { OriginalLabel, ModifiedLabel, <<>> },
                 t \in { <<>>, <<97>>, <<66>> } }
Blocks == Texts \cup { l1 \o LineFeed \o l2 : l1 \in LabelledLines,
                                               l2 \in LabelledLines }

InitEnvelope ==
    /\ InitBot /\ LookupIdle /\ TranscodeIdle /\ RelayIdle /\ KeyboardIdle
    /\ SysIdle
    /\ envParsed = [originalText |-> <<>>, modifiedText |-> Undefined]
    /\ envOutcome = "none"
    /\ \/ /\ envPc = "start"
          /\ envOriginal \in Texts
          /\ envModified \in OptTexts
          /\ envBlock = <<>>
       \/ /\ envPc = "block"
          /\ envOriginal = <<>>
          /\ envModified = Undefined
          /\ envBlock \in Blocks

\* block = textEffectResponse(original, modified)
Render ==
    /\ envPc = "start"
    /\ envBlock' = textEffectResponse(envOriginal, envModified)
    /\ envPc' = "rendered"
    /\ UNCHANGED <<sysVars, botVars, auxVars, envOriginal, envModified, envParsed,
                   envOutcome>>

\* parseTextEffectResponse(block) on a rendered block (then "parsed") or on
\* a block given as it is (then "parsedBlock"); the call returns normally
Parse ==
    /\ envPc \in {"rendered", "block"}
    /\ envParsed' = parseTextEffectResponse(envBlock)
    /\ envOutcome' = "returned"
    /\ envPc' = IF envPc = "rendered" THEN "parsed" ELSE "parsedBlock"
    /\ UNCHANGED <<sysVars, botVars, auxVars, envOriginal, envModified, envBlock>>

NextEnvelope == Render \/ Parse

SpecEnvelope == InitEnvelope /\ [][NextEnvelope]_vars

---------------------------------------------------------------------------
(* SpecCatalog: the catalog lookups on inputs drawn from bounded sets *)

toUpperCase(str) ==
    [ k \in 1 .. Len(str) |->
        IF str[k] >= 97 /\ str[k] <= 122 THEN str[k] - 32 ELSE str[k] ]

\* str with the letter at position k in the other case
FlipCaseAt(str, k) ==
    [str EXCEPT ![k] = IF @ >= 97 /\ @ <= 122 THEN @ - 32
                       ELSE IF @ >= 65 /\ @ <= 90 THEN @ + 32 ELSE @]

CatalogLabels == { LabelUnits[allEffects[k].label] : k \in 1 .. Len(allEffects) }

\* letter-case spellings of the catalog labels
Spellings ==
    UNION { { L, toLowerCase(L), toUpperCase(L) }
                \cup { FlipCaseAt(L, k) : k \in 1 .. Len(L) } : L \in CatalogLabels }

\* labels that are no spelling of a catalog label: the empty label, a label
\* cut short, a label with a letter more, a label with a digit for a letter
OtherLabels ==
    { <<>> }
        \cup { SubSeq(L, 1, Len(L) - 1) : L \in CatalogLabels }
        \cup { L \o <<120>> : L \in CatalogLabels }
        \cup { [L EXCEPT ![2] = 48] : L \in CatalogLabels }

LabelInputs == Spellings \cup OtherLabels

\* variant codes as callers pass them: codes of the catalog and others
CodeValues == AllVariants \cup { "x", "W" }

RECURSIVE CodeSeqs(_)
CodeSeqs(n) ==
    IF n = 0 THEN { <<>> }
    ELSE LET prev == CodeSeqs(n - 1)
         IN  prev \cup { Append(cs, c) : cs \in prev, c \in CodeValues }

CodeInputs ==
    CodeSeqs(MaxCodes) \cup { AllCodes } \cup { RemainingCodes(c) : c \in AllVariants }
        \cup { Append(RemainingCodes(c), "x") : c \in AllVariants }

\* findEffectByLabel(label); the call returns normally
FindByLabel(label) ==
    /\ lookup' = [pc |-> "found", op |-> "findEffectByLabel", label |-> label,
                  codes |-> <<>>, found |-> findEffectByLabel(label),
                  built |-> <<>>, outcome |-> "returned"]
    /\ UNCHANGED <<sysVars, botVars, envVars, transcode, relay, keyboard>>

\* createInlineKeyboard(effectCodes); the call returns normally
BuildKeyboard(effectCodes) ==
    /\ lookup' = [pc |-> "built", op |-> "createInlineKeyboard", label |-> <<>>,
                  codes |-> effectCodes, found |-> <<>>,
                  built |-> createInlineKeyboard(effectCodes),
                  outcome |-> "returned"]
    /\ UNCHANGED <<sysVars, botVars, envVars, transcode, relay, keyboard>>

NextCatalog ==
    \/ \E label \in LabelInputs : FindByLabel(label)
    \/ \E effectCodes \in CodeInputs : BuildKeyboard(effectCodes)

SpecCatalog == Init /\ [][NextCatalog]_vars

---------------------------------------------------------------------------
(* The webhook relay: bot.command('webhook'), sendDataToWebhook, notifyUser *)

ChatIds == 1 .. MaxChats

\* how axios.post settles: fulfilled with a text or an object as response
\* data, rejected with an Axios error that carries a response (status 422,
\* status 500), that carries only the request, or that carries neither, or
\* rejected with an error that is no Axios error
PostOutcomes ==
    { "okText", "okObject", "status422", "status500", "noResponse",
      "setupError", "nonAxios" }

PostFulfilled(post) == post \in { "okText", "okObject" }
IsAxiosError(post) ==
    post \in { "status422", "status500", "noResponse", "setupError" }

\* how bot.api.sendMessage settles
SendOutcomes == { "delivered", "rejected" }

\* response.data of a fulfilled POST
ResponseData(post) ==
    IF post = "okObject" THEN [type |-> "object", value |-> "{ok: true}"]
    ELSE [type |-> "string", value |-> "data recvd"]

\* a value interpolated into a template literal
Interpolate(d) == IF d.type = "object" THEN "[object Object]" ELSE d.value

TextMessage(parts) == [type |-> "string", value |-> parts]

\* sendDataToWebhook of bot.ts up to the call of notifyUser: the calls of
\* notifyUser it makes, what it writes to the console and to the error log
\* file before them, and whether it throws.  In the catch block the
\* argument of notifyUser reads response, a const of the try block that is
\* not in scope there: evaluating it raises a ReferenceError before
\* notifyUser is called.
sendDataToWebhook(data, chatId, post) ==
    IF PostFulfilled(post)
    THEN [calls   |-> << [chatId  |-> chatId,
                          message |-> TextMessage(
                              << "Received response from webhook: ",
                                 Interpolate(ResponseData(post)) >>)] >>,
          console |-> << "Sending the following data to the webhook:",
                         "Payload:",
                         "Data sent to webhook successfully. Response:" >>,
          log     |-> <<>>,
          threw   |-> FALSE]
    ELSE [calls   |-> <<>>,
          console |-> << "Sending the following data to the webhook:",
                         "Payload:",
                         "An error occurred while sending data to the webhook:",
                         CASE post \in { "status422", "status500" } -> "Response error:"
                           [] post = "noResponse" ->
                                "No response received, request details:"
                           [] post = "setupError" -> "Error setting up the request:"
                           [] OTHER -> "error" >>,
          log     |-> << "An error occurred while sending data to the webhook: " >>,
          threw   |-> TRUE]

\* sendDataToWebhook of the later version (part_000): the message depends
\* on the class of the error; for an Axios error the console and log lines
\* are written after notifyUser has settled
sendDataToWebhookLater_No422(data, chatId, post) ==
    LET message ==
            CASE PostFulfilled(post) ->
                    [type  |-> ResponseData(post).type,
                     value |-> << ResponseData(post).value >>]
              [] IsAxiosError(post) ->
                    TextMessage(<< "An error occurred while sending data to the webhook." >>)
              [] OTHER ->
                    TextMessage(<< "An unexpected error occurred while sending webhook data." >>)
    IN  [calls   |-> << [chatId |-> chatId, message |-> message] >>,
         console |-> <<>>, log |-> <<>>, consoleAfter |-> <<>>,
         logAfter |-> <<>>, threw |-> FALSE]

sendDataToWebhookLater(data, chatId, post) ==
    LET message ==
            CASE PostFulfilled(post) ->
                    [type  |-> ResponseData(post).type,
                     value |-> << ResponseData(post).value >>]
              [] post = "status422" ->
                    \* the two parts are joined by a line feed
                    TextMessage(<< "The server understood the request but was unable to process the command due to syntax errors or invalid data.",
                                   "Error code 422" >>)
              [] IsAxiosError(post) ->
                    TextMessage(<< "An error occurred while sending data to the webhook." >>)
              [] OTHER ->
                    TextMessage(<< "An unexpected error occurred while sending webhook data." >>)
        start == << "Sending the following data to the webhook:", "Payload:" >>
    IN  [calls   |-> << [chatId |-> chatId, message |-> message] >>,
         console |-> CASE PostFulfilled(post) ->
                            Append(start, "Data sent to webhook successfully. Response:")
                       [] IsAxiosError(post) -> start
                       [] OTHER -> Append(start, "error"),
         log     |-> IF PostFulfilled(post) \/ IsAxiosError(post) THEN <<>>
                     ELSE << "An unexpected error occured while sending webhook data: " >>,
         consoleAfter |->
                     IF IsAxiosError(post)
                     THEN << "An error occurred while sending data to the webhook:" >>
                     ELSE <<>>,
         logAfter |->
                     IF IsAxiosError(post)
                     THEN << "An error occurred while sending data to the webhook: " >>
                     ELSE <<>>,
         threw   |-> FALSE]

notifyUser_NoCatch(chatId, message, send) ==
    [sent    |-> IF send = "delivered"
                 THEN << [chatId |-> chatId, text |-> message] >> ELSE <<>>,
     console |-> <<>>, log |-> <<>>, threw |-> send = "rejected"]

\* notifyUser of bot.ts: bot.api.sendMessage(chatId, message) in a try
\* block whose catch writes to the console and to the error log file
notifyUser(chatId, message, send) ==
    [sent    |-> IF send = "delivered"
                 THEN << [chatId |-> chatId, text |-> message] >> ELSE <<>>,
     console |-> IF send = "rejected"
                 THEN << "Failed to send message to user: " >> ELSE <<>>,
     log     |-> IF send = "rejected"
                 THEN << "Failed to send message to user: " >> ELSE <<>>,
     threw   |-> FALSE]

\* typeof message === 'object' ? a fenced json block of
\* JSON.stringify(message, null, 2) : the message between backquotes
FormatMessage(message) ==
    IF message.type = "object"
    THEN [fence |-> "json block", body |-> message.value]
    ELSE [fence |-> "inline code", body |-> message.value]

\* notifyUser of the later version: the message is formatted and sent with
\* parse_mode MarkdownV2
notifyUserLater(chatId, message, send) ==
    [sent    |-> IF send = "delivered"
                 THEN << [chatId |-> chatId, text |-> FormatMessage(message),
                          parse_mode |-> "MarkdownV2"] >>
                 ELSE <<>>,
     console |-> IF send = "rejected"
                 THEN << "Failed to send message to user: " >> ELSE <<>>,
     log     |-> IF send = "rejected"
                 THEN << "Failed to send message to user: " >> ELSE <<>>,
     threw   |-> FALSE]

\* bot.command('webhook', ...): chatId = ctx.chat.id, data = ctx.match,
\* sendDataToWebhook(data, chatId) starts and awaits axios.post
WebhookCommand(chat, data) ==
    /\ relay.pc \in { "idle", "done" }
    /\ relay' = [pc |-> "posting", chat |-> chat, data |-> data, post |-> "none",
                 send |-> "none", notifyCalls |-> <<>>, sent |-> <<>>,
                 console |-> <<>>, log |-> <<>>, result |-> "none"]
    /\ UNCHANGED <<sysVars, botVars, envVars, lookup, transcode, keyboard>>

\* the state of the relay when the POST has settled with outcome post and
\* sendDataToWebhook has run as r describes
AfterPost(post, r) ==
    [relay EXCEPT !.post = post,
                  !.notifyCalls = r.calls,
                  !.console = r.console,
                  !.log = r.log,
                  !.pc = IF r.threw \/ r.calls = <<>> THEN "done" ELSE "notifying",
                  !.result = IF r.threw THEN "threw"
                             ELSE IF r.calls = <<>> THEN "returned" ELSE "none"]

\* the state of the relay when sendMessage has settled with outcome send,
\* notifyUser has run as n describes and sendDataToWebhook then wrote the
\* given console and log lines
AfterSend(send, n, consoleAfter, logAfter) ==
    [relay EXCEPT !.send = send,
                  !.sent = n.sent,
                  !.console = (@ \o n.console) \o consoleAfter,
                  !.log = (@ \o n.log) \o logAfter,
                  !.pc = "done",
                  !.result = IF n.threw THEN "threw" ELSE "returned"]

\* axios.post settles (bot.ts)
PostSettles(post) ==
    /\ relay.pc = "posting"
    /\ relay' = AfterPost(post, sendDataToWebhook(relay.data, relay.chat, post))
    /\ UNCHANGED <<sysVars, botVars, envVars, lookup, transcode, keyboard>>

\* bot.api.sendMessage settles (bot.ts)
SendSettles(send) ==
    /\ relay.pc = "notifying"
    /\ relay' = AfterSend(send,
                          notifyUser(relay.notifyCalls[1].chatId,
                                     relay.notifyCalls[1].message, send),
                          <<>>, <<>>)
    /\ UNCHANGED <<sysVars, botVars, envVars, lookup, transcode, keyboard>>

NextRelay ==
    \/ \E chat \in ChatIds, data \in CommandTexts : WebhookCommand(chat, data)
    \/ \E post \in PostOutcomes : PostSettles(post)
    \/ \E send \in SendOutcomes : SendSettles(send)

SpecRelay == Init /\ [][NextRelay]_vars

\* axios.post settles (later version)
PostSettlesLater(post) ==
    /\ relay.pc = "posting"
    /\ relay' = AfterPost(post, sendDataToWebhookLater(relay.data, relay.chat, post))
    /\ UNCHANGED <<sysVars, botVars, envVars, lookup, transcode, keyboard>>

\* bot.api.sendMessage settles (later version)
SendSettlesLater(send) ==
    /\ relay.pc = "notifying"
    /\ LET r == sendDataToWebhookLater(relay.data, relay.chat, relay.post)
       IN  relay' = AfterSend(send,
                              notifyUserLater(relay.notifyCalls[1].chatId,
                                              relay.notifyCalls[1].message, send),
                              r.consoleAfter, r.logAfter)
    /\ UNCHANGED <<sysVars, botVars, envVars, lookup, transcode, keyboard>>

NextRelayLater ==
    \/ \E chat \in ChatIds, data \in CommandTexts : WebhookCommand(chat, data)
    \/ \E post \in PostOutcomes : PostSettlesLater(post)
    \/ \E send \in SendOutcomes : SendSettlesLater(send)

SpecRelayLater == Init /\ [][NextRelayLater]_vars

---------------------------------------------------------------------------
(* SpecBoot: the top-level code of the module, from the launch of the
   process to the end of start-up, for src/src/bot.ts ("bot.ts") and for the
   later version of src/unnamed/part_000 lines 365-513 ("part_000") *)

Versions == { "bot.ts", "part_000" }

\* process.env as the module reads it: a variable is missing, set to the
\* empty string, or set
Environments ==
    [token : { "missing", "empty", "set" },
     webhookUrl : { "missing", "empty", "set" },
     nodeEnv : { "missing", "development", "production" },
     port : { "missing", "set" }]

\* !process.env[name]
Falsy(value) == value \in { "missing", "empty" }

EnvValue(env, name) ==
    IF name = "TELEGRAM_TOKEN" THEN env.token ELSE env.webhookUrl

\* the variables validated at start-up, in the order of the validation
RequiredVariables(version) ==
    IF version = "part_000" THEN << "TELEGRAM_TOKEN", "WEBHOOK_URL" >>
    ELSE << "TELEGRAM_TOKEN" >>

MissingVariable_OnlyUndefined(version, env) ==
    LET required == RequiredVariables(version)
        bad == { k \in 1 .. Len(required) : EnvValue(env, required[k]) = "missing" }
    IN  IF bad = {} THEN ""
        ELSE required[CHOOSE k \in bad : \A j \in bad : k <= j]

\* the first required variable that fails the validation
\* (!process.env.TELEGRAM_TOKEN || process.env.TELEGRAM_TOKEN === "" in
\* bot.ts, !process.env[name] in part_000), "" when none does
MissingVariable(version, env) ==
    LET required == RequiredVariables(version)
        bad == { k \in 1 .. Len(required) : Falsy(EnvValue(env, required[k])) }
    IN  IF bad = {} THEN ""
        ELSE required[CHOOSE k \in bad : \A j \in bad : k <= j]

\* the message written to the error log file and to the console
ValidationMessage(version, name) ==
    IF version = "bot.ts"
    THEN "No Telegram token provided. Please set the TELEGRAM_TOKEN environment variable in the .env file."
    ELSE IF name = "TELEGRAM_TOKEN"
         THEN "Environment variable TELEGRAM_TOKEN is missing from the '.env' file."
         ELSE "Environment variable WEBHOOK_URL is missing from the '.env' file."

\* what the top-level code registers on the bot and on the express app, in
\* order.  In bot.ts the arrow function of bot.command('webhook', ...) is
\* closed only at the end of the file, so the inline-query handler, the six
\* effect callbacks and the POST /webhook route are statements of that
\* handler's body, not of the top level.
TopLevelRegistrations(version) ==
    IF version = "bot.ts"
    THEN << "command:yo", "command:effect", "command:start", "command:webhook" >>
    ELSE << "command:start", "command:webhook", "route:POST /webhook" >>

\* the process is launched with an environment
Launch(version, env) ==
    /\ boot.pc = "off"
    /\ boot' = [boot EXCEPT !.pc = "launched", !.version = version, !.env = env]
    /\ UNCHANGED <<botVars, envVars, auxVars, inflight, inlineQuery>>

\* the validation of the environment: process.exit(1) after logging, or on
\* to the construction of the bot
ValidateEnvironment ==
    /\ boot.pc = "launched"
    /\ LET name == MissingVariable(boot.version, boot.env)
       IN  boot' =
             IF name = ""
             THEN [boot EXCEPT !.pc = "validated"]
             ELSE [boot EXCEPT
                     !.pc = "exited",
                     !.log = Append(@, ValidationMessage(boot.version, name)),
                     !.console = Append(@, ValidationMessage(boot.version, name)),
                     !.exitCode = << 1 >>]
    /\ UNCHANGED <<botVars, envVars, auxVars, inflight, inlineQuery>>

\* new Bot(process.env.TELEGRAM_TOKEN ...), express()
ConstructBot ==
    /\ boot.pc = "validated"
    /\ boot' = [boot EXCEPT !.pc = "constructed", !.botConstructed = TRUE]
    /\ UNCHANGED <<botVars, envVars, auxVars, inflight, inlineQuery>>

\* the bot.command(...) calls, and app.post of part_000
RegisterHandlers ==
    /\ boot.pc = "constructed"
    /\ boot' = [boot EXCEPT !.pc = "registered",
                            !.registered = @ \o TopLevelRegistrations(boot.version)]
    /\ UNCHANGED <<botVars, envVars, auxVars, inflight, inlineQuery>>

\* startBotServer() of part_000: in production app.use(express.json()),
\* app.use(webhookCallback(bot, 'express')) and app.listen; then, in every
\* mode, bot.start()
StartBotServer ==
    /\ boot.pc = "registered"
    /\ boot.version = "part_000"
    /\ boot' =
         IF boot.env.nodeEnv = "production"
         THEN [boot EXCEPT !.pc = "loaded",
                           !.registered = @ \o << "use:express.json",
                                                  "use:webhookCallback" >>,
                           !.listenCalls = @ + 1,
                           !.startCalls = @ + 1]
         ELSE [boot EXCEPT !.pc = "loaded", !.startCalls = @ + 1]
    /\ UNCHANGED <<botVars, envVars, auxVars, inflight, inlineQuery>>

\* bot.ts: the top-level code ends after the bot.command(...) calls; nothing
\* has started the bot or a server
EndOfModule ==
    /\ boot.pc = "registered"
    /\ boot.version = "bot.ts"
    /\ boot' = [boot EXCEPT !.pc = "loaded"]
    /\ UNCHANGED <<botVars, envVars, auxVars, inflight, inlineQuery>>

\* long polling is running
Polling == boot.startCalls > 0

\* the express server that hands updates to the bot is listening
WebhookServing ==
    /\ boot.listenCalls > 0
    /\ \E k \in 1 .. Len(boot.registered) : boot.registered[k] = "use:webhookCallback"

\* bot.callbackQuery(effectCallbackCodeAccessor(effect.code), ...) for each
\* effect of allEffects
CallbackRegistrations ==
    [ k \in 1 .. Len(allEffects) |->
        CASE allEffects[k].code = "w" -> "callback:effect-w"
          [] allEffects[k].code = "b" -> "callback:effect-b"
          [] allEffects[k].code = "i" -> "callback:effect-i"
          [] allEffects[k].code = "d" -> "callback:effect-d"
          [] allEffects[k].code = "o" -> "callback:effect-o"
          [] allEffects[k].code = "q" -> "callback:effect-q" ]

\* The statements of the /webhook handler of bot.ts that follow
\* `await sendDataToWebhook(data, chatId)`, run on the process state b:
\* bot.inlineQuery, the bot.callbackQuery calls, app.post and the start
\* logic (in production app.use twice, app.listen and bot.start(),
\* otherwise bot.start()).
WebhookHandlerRest(b) ==
    LET handlers == (<< "inlineQuery" >> \o CallbackRegistrations)
                        \o << "route:POST /webhook" >>
    IN  IF b.env.nodeEnv = "production"
        THEN [b EXCEPT !.registered = (@ \o handlers)
                            \o << "use:express.json", "use:webhookCallback" >>,
                       !.listenCalls = @ + 1,
                       !.startCalls = @ + 1]
        ELSE [b EXCEPT !.registered = @ \o handlers, !.startCalls = @ + 1]

\* A /webhook command is delivered to the running bot and its handler runs
\* to the end; `relayed` is whether sendDataToWebhook returned normally (a
\* rejection ends the handler at the await).  In part_000 the handler is the
\* relay call alone.
WebhookCommandHandled(relayed) ==
    /\ boot.pc = "loaded"
    /\ Polling \/ WebhookServing
    /\ boot.handled < MaxCommands
    /\ boot' = IF boot.version = "bot.ts" /\ relayed
               THEN [WebhookHandlerRest(boot) EXCEPT !.handled = @ + 1]
               ELSE [boot EXCEPT !.handled = @ + 1]
    /\ UNCHANGED <<botVars, envVars, auxVars, inflight, inlineQuery>>

NextBoot ==
    \/ \E version \in Versions, env \in Environments : Launch(version, env)
    \/ ValidateEnvironment
    \/ ConstructBot
    \/ RegisterHandlers
    \/ StartBotServer
    \/ EndOfModule
    \/ \E relayed \in BOOLEAN : WebhookCommandHandled(relayed)

SpecBoot == Init /\ [][NextBoot]_vars

---------------------------------------------------------------------------
(* SpecAgree: the /effect command and the callback handlers with the two
   halves of a handler apart: the handler runs on the text its update
   carries up to the call of ctx.editMessageText, and the edit takes effect
   later, so that handlers of several presses overlap *)

\* texts given to /effect, one of them with a line that begins with the
\* Modified label
AgreeTexts == CommandTexts \cup { (<<97>> \o LineFeed) \o (ModifiedLabel \o <<66>>) }

\* A press of the button of `code` on message m is delivered: the handler
\* parses the text of the update, applies the variant and calls
\* ctx.editMessageText with the new text and the new keyboard.
CallbackStarts(m, code, accessible) ==
    /\ msgs[m].exists
    /\ Cardinality(inflight) < MaxInflight
    /\ \E received \in { IF accessible THEN msgs[m].text ELSE <<>> } :
       \E originalText \in { parseTextEffectResponse(received).originalText } :
       \E modifiedText \in { applyTextEffect(originalText, code) } :
           inflight' = inflight \cup
               { [msg |-> m, code |-> code, accessible |-> accessible,
                  text |-> textEffectResponse(originalText, Some(modifiedText)),
                  reply_markup |-> createInlineKeyboard(RemainingCodes(code))] }
    /\ inflight' # inflight
    /\ UNCHANGED <<botVars, envVars, auxVars, boot, inlineQuery>>

\* the editMessageText call of a handler takes effect: text and keyboard of
\* the message are replaced together
EditApplied(edit) ==
    /\ edit \in inflight
    /\ inflight' = inflight \ { edit }
    /\ msgs' = [msgs EXCEPT
                  ![edit.msg].text = edit.text,
                  ![edit.msg].keyboard = edit.reply_markup,
                  ![edit.msg].lastCode = edit.code,
                  ![edit.msg].textRead = @ /\ edit.accessible]
    /\ UNCHANGED <<lastCallback, envVars, auxVars, boot, inlineQuery>>

NextAgree ==
    \/ \E m \in MsgIds, match \in AgreeTexts : EffectCommand(m, match)
    \/ \E m \in MsgIds, code \in AllVariants, accessible \in BOOLEAN :
          CallbackStarts(m, code, accessible)
    \/ \E edit \in inflight : EditApplied(edit)

SpecAgree == Init /\ [][NextAgree]_vars

---------------------------------------------------------------------------
(* SpecInline: the inline-query handler of bot.ts *)

\* "effect " and " "
EffectWord == <<101, 102, 102, 101, 99, 116, 32>>
Space == <<32>>

\* the labels of the pattern's first group: monospace, bold, italic
PatternLabels ==
    { <<109, 111, 110, 111, 115, 112, 97, 99, 101>>,
      <<98, 111, 108, 100>>,
      <<105, 116, 97, 108, 105, 99>> }

\* query.match of the pattern "effect ", one of the three labels, a space
\* and a dot-star group: the leftmost match, with its groups 1 and 2
InlineMatch(query) ==
    LET hits == { i \in 1 .. Len(query) :
                    \E lab \in PatternLabels :
                        MatchesAt(query, (EffectWord \o lab) \o Space, i) }
    IN  IF hits = {} THEN [matched |-> FALSE, label |-> <<>>, text |-> <<>>]
        ELSE LET at  == CHOOSE i \in hits : \A j \in hits : i <= j
                 lab == CHOOSE l \in PatternLabels :
                            MatchesAt(query, (EffectWord \o l) \o Space, at)
             IN  [matched |-> TRUE, label |-> lab,
                  text |-> RestOfLine(query, at + Len(EffectWord) + Len(lab) + 1)]

\* the article of the older handler (part_000:207-239): no check of the
\* code, and a template literal whose second line is indented
InlineQueryHandler_IndentedTemplate(query) ==
    LET match == InlineMatch(query)
    IN  IF ~match.matched THEN [answers |-> <<>>, console |-> <<>>]
        ELSE LET effectCode == findEffectByLabel(match.label)
                 modifiedText ==
                    applyTextEffect(match.text,
                                    IF effectCode = <<>> THEN "undefined"
                                    ELSE effectCode[1])
             IN  [answers |->
                    << [type |-> "article", id |-> "text-effect",
                        message_text |->
                            ((((OriginalLabel \o match.text) \o LineFeed)
                                \o [k \in 1 .. 12 |-> 32]) \o ModifiedLabel)
                                \o modifiedText,
                        parse_mode |-> "HTML"] >>,
                  console |-> <<>>]

\* bot.inlineQuery(pattern, handler) on a query: the handler runs when the
\* pattern matches; it returns without an answer when the label has no
\* code, and otherwise answers with one article
InlineQueryHandler(query) ==
    LET match == InlineMatch(query)
    IN  IF ~match.matched THEN [answers |-> <<>>, console |-> <<>>]
        ELSE LET effectCode == findEffectByLabel(match.label)
             IN  IF effectCode = <<>>
                 THEN [answers |-> <<>>,
                       console |-> << "effect code not found for: " >>]
                 ELSE LET modifiedText ==
                              applyTextEffect(match.text, effectCode[1])
                      IN  [answers |->
                             << [type |-> "article", id |-> "text-effect",
                                 message_text |->
                                     textEffectResponse(match.text,
                                                        Some(modifiedText)),
                                 parse_mode |-> "HTML"] >>,
                           console |-> <<>>]

\* what the user types before the query proper
QueryPrefixes == { <<>>, <<120, 32>> }

\* labels typed in a query: the three of the pattern, other spellings and
\* other catalog labels, and labels of no variant
QueryLabels ==
    PatternLabels
        \cup { <<66, 111, 108, 100>>, <<99, 105, 114, 99, 108, 101, 100>>,
               <<98, 111, 108>>, <<>> }

\* one-line texts typed in a query
QueryTexts ==
    { <<>>, <<97>>, <<66>>, <<53>>, <<97, 49>>, <<97, 32, 66>>,
      OriginalLabel \o <<97>>, ModifiedLabel \o <<97>> }

\* queries that are not of the form effect-label-text
OtherQueries == { <<>>, <<97>>, EffectWord, <<101, 102, 102, 101, 99, 116, 32, 98, 111, 108, 100>> }

\* an inline query "effect <label> <text>" arrives and is dispatched
InlineQueryArrives(prefix, label, text) ==
    /\ inlineQuery.pc = "idle"
    /\ LET query == (((prefix \o EffectWord) \o label) \o Space) \o text
           r     == InlineQueryHandler(query)
       IN  inlineQuery' = [pc |-> "handled", label |-> label, text |-> text,
                           query |-> query, answers |-> r.answers,
                           console |-> r.console]
    /\ UNCHANGED <<botVars, envVars, auxVars, boot, inflight>>

\* an inline query of another form arrives and is dispatched
OtherQueryArrives(query) ==
    /\ inlineQuery.pc = "idle"
    /\ LET r == InlineQueryHandler(query)
       IN  inlineQuery' = [pc |-> "other", label |-> <<>>, text |-> <<>>,
                           query |-> query, answers |-> r.answers,
                           console |-> r.console]
    /\ UNCHANGED <<botVars, envVars, auxVars, boot, inflight>>

NextInline ==
    \/ \E prefix \in QueryPrefixes, label \in QueryLabels, text \in QueryTexts :
          InlineQueryArrives(prefix, label, text)
    \/ \E query \in OtherQueries : OtherQueryArrives(query)

SpecInline == Init /\ [][NextInline]_vars

---------------------------------------------------------------------------
(* Properties *)

StartsWith(s, p) == Len(p) <= Len(s) /\ SubSeq(s, 1, Len(p)) = p
EndsWith(s, p) == Len(p) <= Len(s) /\ SubSeq(s, Len(s) - Len(p) + 1, Len(s)) = p

\* the message text carries T on its Original line: the line is alone, or
\* the Modified line follows it
CarriesOriginal(text, T) ==
    \/ text = OriginalLabel \o T
    \/ StartsWith(text, OriginalLabel \o T \o LineFeed \o ModifiedLabel)

HasOriginalLabel(text) == IndexOf(text, OriginalLabel) # 0

\* C1: for every text T given to /effect and every sequence of selections
\* on the resulting message, the Original line of the message still carries
\* T: a selection never overwrites, truncates or replaces the original.
\* (Stated for the selections whose callbacks carried the message text.)
C1_OriginalLineKept ==
    \A m \in MsgIds :
        (msgs[m].exists /\ msgs[m].textRead) =>
            CarriesOriginal(msgs[m].text, msgs[m].source)

\* C2: after any sequence of selections ending with variant vn, the Modified
\* line of the message is applyTextEffect(T, vn), T being the text given to
\* /effect.  (Stated for the selections whose callbacks carried the message
\* text.)
C2_ModifiedFromSource ==
    \A m \in MsgIds :
        (msgs[m].exists /\ msgs[m].lastCode # "" /\ msgs[m].textRead) =>
            EndsWith(msgs[m].text,
                     LineFeed \o ModifiedLabel
                        \o applyTextEffect(msgs[m].source, msgs[m].lastCode))

\* C3: parseTextEffectResponse(textEffectResponse(original, modified))
\* returns exactly {original, modified} for all strings original, modified.
\* (Stated for the non-empty modified texts, whose block has both lines.)
C3_RoundTripModified ==
    (envPc = "parsed" /\ envModified.defined /\ envModified.value # <<>>) =>
        envParsed = [originalText |-> envOriginal, modifiedText |-> envModified]

\* C4: parseTextEffectResponse(textEffectResponse(original)) returns
\* original unchanged and an undefined modified text, for every original.
C4_RoundTripOriginalOnly ==
    (envPc = "parsed" /\ ~envModified.defined) =>
        envParsed = [originalText |-> envOriginal, modifiedText |-> Undefined]

\* C5: after the selection of variant v is handled, the keyboard of the
\* edited message offers AllVariants minus {v}, whatever it offered before.
C5_OfferedIsAllButSelected ==
    \A m \in MsgIds :
        (msgs[m].exists /\ msgs[m].lastCode # "") =>
            OfferedSet(msgs[m].keyboard) =
                { effectCallbackCodeAccessor(c) :
                    c \in AllVariants \ { msgs[m].lastCode } }

\* a message on which "q" and then "i" were selected
C5_Witness ==
    \E m \in MsgIds :
        /\ msgs[m].exists
        /\ msgs[m].lastCode = "i"
        /\ lastCallback.handled
        /\ lastCallback.msg = m
        /\ lastCallback.prevCode = "q"
        /\ Cardinality(OfferedSet(msgs[m].keyboard)) = 5

\* C6: for distinct variants v and w, after selecting v and then w on the
\* same message, v is offered again and w is not.
C6_RemovedOfferedAgain ==
    (/\ lastCallback.handled
     /\ lastCallback.prevCode # ""
     /\ lastCallback.prevCode # lastCallback.code) =>
        /\ effectCallbackCodeAccessor(lastCallback.prevCode)
              \in OfferedSet(msgs[lastCallback.msg].keyboard)
        /\ effectCallbackCodeAccessor(lastCallback.code)
              \notin OfferedSet(msgs[lastCallback.msg].keyboard)

\* "w" then "b" selected on a message: "w" is on its keyboard again
C6_Witness ==
    /\ lastCallback.handled
    /\ lastCallback.prevCode = "w"
    /\ lastCallback.code = "b"
    /\ "effect-w" \in OfferedSet(msgs[lastCallback.msg].keyboard)
    /\ "effect-b" \notin OfferedSet(msgs[lastCallback.msg].keyboard)

\* C7: the reply to /effect carries only the Original line and a keyboard
\* offering every variant of the catalog, in catalog order.
C7_InitialOffersAll ==
    \A m \in MsgIds :
        (msgs[m].exists /\ msgs[m].lastCode = "") =>
            /\ msgs[m].text = OriginalLabel \o msgs[m].source
            /\ OfferedData(msgs[m].keyboard) =
                  << "effect-w", "effect-b", "effect-i",
                     "effect-d", "effect-o", "effect-q" >>

\* the reply to "/effect a1", no variant selected yet
C7_Witness ==
    \E m \in MsgIds :
        /\ msgs[m].exists
        /\ msgs[m].lastCode = ""
        /\ msgs[m].source = <<97, 49>>
        /\ Len(OfferedData(msgs[m].keyboard)) = 6

\* C8: parsing a block without an "Original" label fails; it never returns
\* normally with a fabricated or default original text.
C8_MissingOriginalFails ==
    (envPc = "parsedBlock" /\ ~HasOriginalLabel(envBlock)) =>
        envOutcome # "returned"

\* C9: a callback whose message text has no "Original" line (or no text)
\* calls neither applyTextEffect nor editMessageText.
C9_NoTransformWithoutOriginal ==
    (lastCallback.handled /\ ~HasOriginalLabel(lastCallback.received)) =>
        /\ lastCallback.applyCalls = <<>>
        /\ lastCallback.editCalls = <<>>

\* C10: textEffectResponse(original, modified) is "Original: " + original,
\* followed by a line feed and "Modified: " + modified whenever modified is
\* supplied (the empty string included), and by nothing only when it is
\* absent.
C10_RenderedLines ==
    (envPc = "rendered") =>
        envBlock =
            IF envModified.defined
                THEN OriginalLabel \o envOriginal \o LineFeed
                        \o ModifiedLabel \o envModified.value
                ELSE OriginalLabel \o envOriginal

\* the first occurrence of label in block b is at i
FirstLabelAt(b, label, i) ==
    /\ MatchesAt(b, label, i)
    /\ \A j \in 1 .. (i - 1) : ~MatchesAt(b, label, j)

LabelOccurs(b, label) == \E i \in 1 .. Len(b) : MatchesAt(b, label, i)

\* t is what follows the first occurrence of label in b up to the end of
\* that line
FollowsLabel(b, label, t) ==
    \E i \in 1 .. Len(b) :
        /\ FirstLabelAt(b, label, i)
        /\ LET from == i + Len(label)
               to   == from + Len(t) - 1
           IN  /\ to <= Len(b)
               /\ SubSeq(b, from, to) = t
               /\ \A k \in 1 .. Len(t) : t[k] \notin LineTerminators
               /\ (to = Len(b) \/ b[to + 1] \in LineTerminators)

\* C11: parseTextEffectResponse is label-anchored: for a block with the
\* "Original" label the returned original is the text that follows the label
\* up to the end of that line; the returned modified is the text that
\* follows the "Modified" label up to the end of its line when the block has
\* that label and undefined otherwise; whichever line comes first.
C11_LabelAnchored ==
    (envPc = "parsedBlock") =>
        /\ LabelOccurs(envBlock, OriginalLabel) =>
              FollowsLabel(envBlock, OriginalLabel, envParsed.originalText)
        /\ LabelOccurs(envBlock, ModifiedLabel) =>
              /\ envParsed.modifiedText.defined
              /\ FollowsLabel(envBlock, ModifiedLabel, envParsed.modifiedText.value)
        /\ ~LabelOccurs(envBlock, ModifiedLabel) =>
              envParsed.modifiedText = Undefined

\* the block "Modified: a" / "Original: B", Modified line first, parsed
C11_Witness ==
    /\ envPc = "parsedBlock"
    /\ envBlock = ModifiedLabel \o <<97>> \o LineFeed \o OriginalLabel \o <<66>>
    /\ envParsed = [originalText |-> <<66>>, modifiedText |-> Some(<<97>>)]

\* u and v are the same character or the two cases of one Latin letter
SameLetter(u, v) ==
    \/ u = v
    \/ u >= 65 /\ u <= 90 /\ v = u + 32
    \/ v >= 65 /\ v <= 90 /\ u = v + 32

IsCaseSpelling(str, L) ==
    /\ Len(str) = Len(L)
    /\ \A k \in 1 .. Len(L) : SameLetter(str[k], L[k])

KnownCodes(codes) == SelectSeq(codes, LAMBDA c : c \in AllVariants)

\* C12: findEffectByLabel returns the code of the variant for any
\* letter-case spelling of a catalog label and undefined for every other
\* label; createInlineKeyboard skips a code that is not in the catalog;
\* neither throws.
C12_LookupsTotal ==
    /\ (lookup.pc = "found") =>
          /\ lookup.outcome = "returned"
          /\ \A k \in 1 .. Len(allEffects) :
                IsCaseSpelling(lookup.label, LabelUnits[allEffects[k].label])
                    => lookup.found = << allEffects[k].code >>
          /\ (\A k \in 1 .. Len(allEffects) :
                ~IsCaseSpelling(lookup.label, LabelUnits[allEffects[k].label]))
                    => lookup.found = <<>>
    /\ (lookup.pc = "built") =>
          /\ lookup.outcome = "returned"
          /\ Len(Buttons(lookup.built)) = Len(KnownCodes(lookup.codes))
          /\ OfferedSet(lookup.built) \subseteq
                { effectCallbackCodeAccessor(c) : c \in AllVariants }

\* "BOLD" looked up gives "b"
C12_Witness ==
    /\ lookup.pc = "found"
    /\ lookup.label = <<66, 79, 76, 68>>
    /\ lookup.found = << "b" >>

\* C15: createInlineKeyboard(codes) has one button per known code, in the
\* order of the codes, labelled with the variant's label and carrying the
\* callback data "effect-<code>", in rows of at most 3 buttons.
C15_KeyboardLayout ==
    (lookup.pc = "built") =>
        LET known == KnownCodes(lookup.codes)
            bs    == Buttons(lookup.built)
        IN  /\ Len(bs) = Len(known)
            /\ \A k \in 1 .. Len(known) :
                  /\ bs[k].callback_data = effectCallbackCodeAccessor(known[k])
                  /\ \E e \in 1 .. Len(allEffects) :
                        /\ allEffects[e].code = known[k]
                        /\ allEffects[e].label = bs[k].text
            /\ \A r \in 1 .. Len(lookup.built) : Len(lookup.built[r]) <= 3

\* the keyboard of the whole catalog: six buttons
C15_Witness ==
    /\ lookup.pc = "built"
    /\ lookup.codes = AllCodes
    /\ Len(Buttons(lookup.built)) = 6

\* C14: whether the POST of a /webhook command succeeds or fails,
\* sendDataToWebhook calls notifyUser exactly once, for the chat that issued
\* the command, and returns without throwing.
C14_NotifiedOnceNoThrow ==
    (relay.pc = "done") =>
        /\ Len(relay.notifyCalls) = 1
        /\ relay.notifyCalls[1].chatId = relay.chat
        /\ relay.result = "returned"

\* C19: the later sendDataToWebhook makes exactly one notification, whose
\* message is the response data on success, the tailored message ending in
\* "Error code 422" for an Axios error with response status 422, the
\* generic message for any other Axios error, and the "unexpected error"
\* message for an error that is no Axios error.
C19_MessageByErrorClass ==
    (relay.pc \in { "notifying", "done" }) =>
        /\ Len(relay.notifyCalls) = 1
        /\ relay.notifyCalls[1].chatId = relay.chat
        /\ LET value == relay.notifyCalls[1].message.value
           IN  /\ PostFulfilled(relay.post) =>
                        value = << ResponseData(relay.post).value >>
               /\ relay.post = "status422" =>
                        value[Len(value)] = "Error code 422"
               /\ relay.post \in { "status500", "noResponse", "setupError" } =>
                        value = << "An error occurred while sending data to the webhook." >>
               /\ relay.post = "nonAxios" =>
                        value = << "An unexpected error occurred while sending webhook data." >>

\* a POST answered with status 422, notified with the tailored message
C19_Witness ==
    /\ relay.pc = "done"
    /\ relay.post = "status422"
    /\ Len(relay.notifyCalls) = 1
    /\ relay.notifyCalls[1].message.value[2] = "Error code 422"

\* C20: when bot.api.sendMessage rejects, notifyUser writes the error to the
\* console and to the error log file and resolves: the handler that called
\* it returns normally.
C20_NotifyNeverThrows ==
    (relay.pc = "done" /\ relay.send = "rejected") =>
        /\ relay.result = "returned"
        /\ \E k \in 1 .. Len(relay.console) :
              relay.console[k] = "Failed to send message to user: "
        /\ \E k \in 1 .. Len(relay.log) :
              relay.log[k] = "Failed to send message to user: "

\* a rejected sendMessage after a successful POST
C20_Witness ==
    /\ relay.pc = "done"
    /\ relay.send = "rejected"
    /\ relay.sent = <<>>
    /\ relay.result = "returned"

\* C13: the handlers own no shared mutable state: no module-level value
\* changes as commands and callbacks are processed.
C13_NoSharedState == [][keyboard' = keyboard]_vars

IsAlphanumeric(u) ==
    \/ u >= 65 /\ u <= 90
    \/ u >= 97 /\ u <= 122
    \/ u >= 48 /\ u <= 57

\* C16: for every string and every variant of the catalog, applyTextEffect
\* gives a string with as many scalar values as its input.
C16_LengthPreserved ==
    (transcode.pc = "applied" /\ transcode.variant \in AllVariants) =>
        Len(Scalars(transcode.result)) = Len(Scalars(transcode.text))

\* "A" and an emoji in bold: two scalar values in, two out, four code units
C16_Witness ==
    /\ transcode.pc = "applied"
    /\ transcode.variant = "b"
    /\ transcode.text = <<65, 55357, 56832>>
    /\ transcode.result = <<55349, 56320, 55357, 56832>>

\* C17: for every variant, a string without any of A-Z, a-z, 0-9 comes back
\* unchanged.
C17_PassThrough ==
    (/\ transcode.pc = "applied"
     /\ \A k \in 1 .. Len(transcode.text) : ~IsAlphanumeric(transcode.text[k]))
        => transcode.result = transcode.text

\* a space and an exclamation mark in monospace
C17_Witness ==
    /\ transcode.pc = "applied"
    /\ transcode.variant = "w"
    /\ transcode.text = <<32, 33>>
    /\ transcode.result = <<32, 33>>

\* C18: with a variant that is not in the catalog, applyTextEffect returns
\* its input unchanged and does not raise.
C18_UnknownVariantNoOp ==
    (transcode.pc = "applied" /\ transcode.variant \notin AllVariants) =>
        /\ transcode.result = transcode.text
        /\ transcode.outcome = "returned"

\* "A5" with undefined as the variant
C18_Witness ==
    /\ transcode.pc = "applied"
    /\ transcode.variant = "undefined"
    /\ transcode.text = <<65, 53>>
    /\ transcode.result = <<65, 53>>

\* C21: when a required environment variable is missing or empty, the
\* process writes the problem to the error log file and exits with code 1,
\* with no Bot constructed, no handler registered and nothing started.
C21_ValidationFirst ==
    LET name == MissingVariable(boot.version, boot.env)
    IN  /\ (boot.pc = "exited") =>
              /\ boot.exitCode = << 1 >>
              /\ boot.log = << ValidationMessage(boot.version, name) >>
              /\ ~boot.botConstructed
              /\ boot.registered = <<>>
              /\ boot.startCalls = 0
              /\ boot.listenCalls = 0
        /\ (/\ boot.pc \notin { "off", "launched" }
            /\ \E k \in 1 .. Len(RequiredVariables(boot.version)) :
                  Falsy(EnvValue(boot.env, RequiredVariables(boot.version)[k])))
              => boot.pc = "exited"

\* the later version launched with a token and an empty WEBHOOK_URL
C21_Witness ==
    /\ boot.pc = "exited"
    /\ boot.version = "part_000"
    /\ boot.env.token = "set"
    /\ boot.env.webhookUrl = "empty"
    /\ boot.exitCode = << 1 >>

\* C22: the update-delivery mode is exclusive: long polling and the webhook
\* callback server are never both active, and in production long polling is
\* never started.
C22_ExclusiveDelivery ==
    /\ ~(Polling /\ WebhookServing)
    /\ (boot.env.nodeEnv = "production") => ~Polling

\* the number of times `name` has been registered
TimesRegistered(name) ==
    Cardinality({ k \in 1 .. Len(boot.registered) : boot.registered[k] = name })

\* C26: once start-up is over, the inline-query handler, the six effect
\* callbacks and the POST /webhook route are each registered exactly once,
\* whatever number of /webhook commands has been handled, and bot.start and
\* app.listen have been called at most once.
C26_HandlersFixed ==
    (boot.pc = "loaded") =>
        /\ TimesRegistered("route:POST /webhook") = 1
        /\ (boot.version = "bot.ts") =>
              /\ TimesRegistered("inlineQuery") = 1
              /\ \A k \in 1 .. Len(CallbackRegistrations) :
                    TimesRegistered(CallbackRegistrations[k]) = 1
        /\ boot.startCalls <= 1
        /\ boot.listenCalls <= 1

\* C27: when the start-up code has run with a valid token, the bot receives
\* updates, by long polling or by the webhook server, with no update
\* processed before, and the effect callbacks are registered.
C27_ReceivingAfterStartup ==
    (boot.pc = "loaded" /\ boot.handled = 0) =>
        /\ Polling \/ WebhookServing
        /\ (boot.version = "bot.ts") =>
              \A k \in 1 .. Len(CallbackRegistrations) :
                    TimesRegistered(CallbackRegistrations[k]) >= 1

\* the label is a letter-case spelling of a catalog label
ResolvesToVariant(label) ==
    \E k \in 1 .. Len(allEffects) :
        IsCaseSpelling(label, LabelUnits[allEffects[k].label])

\* the code of the variant the label is a spelling of
VariantOfLabel(label) ==
    allEffects[CHOOSE k \in 1 .. Len(allEffects) :
                   IsCaseSpelling(label, LabelUnits[allEffects[k].label])].code

C25_RepeatedPressNoChange ==
    [][\A m \in MsgIds :
          (/\ msgs[m].exists
           /\ msgs[m].lastCode # ""
           /\ lastCallback'.handled
           /\ lastCallback'.msg = m
           /\ lastCallback'.code = msgs[m].lastCode)
             => /\ msgs'[m].text = msgs[m].text
                /\ msgs'[m].keyboard = msgs[m].keyboard]_vars

\* the text has a line that begins with the Modified label
HasModifiedLine(text) ==
    \E i \in 2 .. Len(text) :
        /\ MatchesAt(text, ModifiedLabel, i)
        /\ text[i - 1] \in LineTerminators

\* the text and the keyboard are what a selection of v writes for the
\* original the text shows
ShowsSelection(text, kb, v) ==
    LET original == parseTextEffectResponse(text).originalText
    IN  /\ text = textEffectResponse(original, Some(applyTextEffect(original, v)))
        /\ OfferedSet(kb) =
              { effectCallbackCodeAccessor(c) : c \in AllVariants \ { v } }

\* C24: in every state, a message that has a Modified line shows, for one
\* variant v, Modified = applyTextEffect(original, v) and offers exactly the
\* other variants, however the handlers of its callbacks overlap.
C24_ModifiedAgreesWithOffered ==
    \A m \in MsgIds :
        (msgs[m].exists /\ HasModifiedLine(msgs[m].text)) =>
            \E v \in AllVariants :
                ShowsSelection(msgs[m].text, msgs[m].keyboard, v)

=============================================================================
